---- MODULE Spec2Model ----
(***************************************************************************)
(* QGVLayerTilesOnline: the online tile layer of QGeoView.  request()      *)
(* serves a tile from the SQLite table Tiles or issues a network GET and   *)
(* registers the reply in mRequest; onReplyFinished() delivers a finished  *)
(* reply through onTile() and writes it to the table; cancel() aborts the  *)
(* reply registered for a tile position.  Everything runs on one thread:   *)
(* every handler below is one atomic step, and a signal emitted inside a   *)
(* handler (QNetworkReply::abort emits finished()) runs its slot nested in *)
(* that step.                                                              *)
(***************************************************************************)
EXTENDS Integers, Sequences, FiniteSets, TLC

\* ---- bounds -----------------------------------------------------------
MaxReplies == 3          \* network GETs issued in one run
MaxHits == 1             \* request() calls served from the table in one run
MaxLiveReplies == 2      \* network GETs issued in one run of SpecLive

\* QGV::GeoTilePos values requested by the base layer: <<zoom, x, y>>
TilePositions == {<<3, 1, 2>>, <<3, 2, 1>>}
\* bodies a GET may return (an empty body included)
Bodies == {<<>>, <<1>>}
\* authority the subclass's tilePosToUrl puts in its URLs
Hosts == {"tile.example.com", "Tile.Example.com"}

nullptr == 0

VARIABLES
    dbOk,        \* mSqlDatabase is open and table Tiles exists
    host,        \* authority of the URLs the subclass's tilePosToUrl builds
    rows,        \* rows of table Tiles reachable through mSqlDatabase
    nextRowId,   \* next value of the AUTOINCREMENT column id
    mRequest,    \* QMap<GeoTilePos, QNetworkReply*>, nullptr = no entry
    replies,     \* the QNetworkReply objects get() has returned, by handle
    onTileLog,   \* history: the onTile(tilePos, tile) calls made, in order
    ops,         \* history: the calls made by the handler that ran last
    stored,      \* history: bytes the last successful INSERT bound per key
    hits,        \* history: number of request() calls served from the table
    last         \* history: the handler that ran last and its arguments

vars == <<dbOk, host, rows, nextRowId, mRequest, replies, onTileLog, ops,
          stored, hits, last>>

\* ---- URLs -------------------------------------------------------------
\* A URL string is modelled by its list of '/'-separated pieces, so that
\* url.split('/')[2] is the third piece.
ToLower(h) == IF h = "Tile.Example.com" THEN "tile.example.com" ELSE h

\* the subclass's resolver: scheme://host/zoom/x/y
tilePosToUrl(tilePos) ==
    <<"http:", "", host, tilePos[1], tilePos[2], tilePos[3]>>

\* QUrl(string).toString(): QUrl keeps the host in lower case
QUrlToString(url) == [url EXCEPT ![3] = ToLower(@)]

\* url.split('/')[2]
Provider(url) == url[3]

\* ---- table Tiles ------------------------------------------------------
KeyOf(tilePos, url) == <<tilePos[1], tilePos[2], tilePos[3], Provider(url)>>

RowKey(r) == <<r.zoom_level, r.tile_x, r.tile_y, r.tile_provider>>

\* a findCachedTile that binds :y to the x of the position
findCachedTileWrongY(s, tilePos, url) ==
    LET match == {r \in s.rows :
                    RowKey(r) = <<tilePos[1], tilePos[2], tilePos[2],
                                  Provider(url)>>}
    IN  IF dbOk /\ match # {}
        THEN (CHOOSE r \in match : \A q \in match : r.id <= q.id).tile_data
        ELSE <<>>

\* SELECT tile_data ... WHERE zoom_level, tile_x, tile_y, tile_provider
\* match; the first row if exec() and next() succeed, else QByteArray()
findCachedTile(s, tilePos, url) ==
    LET match == {r \in s.rows : RowKey(r) = KeyOf(tilePos, url)}
    IN  IF dbOk /\ match # {}
        THEN (CHOOSE r \in match : \A q \in match : r.id <= q.id).tile_data
        ELSE <<>>

\* a cacheTile that inserts without resolving the UNIQUE conflict
cacheTileNoReplace(s, image, tilePos, url) ==
    IF ~dbOk
    THEN [s EXCEPT !.ops = Append(@, "cacheTile failed")]
    ELSE [s EXCEPT
            !.rows = @ \cup
                     {[id |-> s.nextRowId, zoom_level |-> tilePos[1],
                       tile_x |-> tilePos[2], tile_y |-> tilePos[3],
                       tile_provider |-> Provider(url), tile_data |-> image]},
            !.nextRowId = @ + 1,
            !.stored = [k \in DOMAIN @ \cup {KeyOf(tilePos, url)} |->
                          IF k = KeyOf(tilePos, url) THEN image ELSE @[k]],
            !.ops = Append(@, "cacheTile")]

\* INSERT OR REPLACE INTO Tiles: the row that conflicts on
\* UNIQUE(zoom_level, tile_x, tile_y, tile_provider) is deleted, the new
\* row gets the next id.  A failed exec() is logged and nothing else.
cacheTile(s, image, tilePos, url) ==
    IF ~dbOk
    THEN [s EXCEPT !.ops = Append(@, "cacheTile failed")]
    ELSE [s EXCEPT
            !.rows = {r \in @ : RowKey(r) # KeyOf(tilePos, url)} \cup
                     {[id |-> s.nextRowId, zoom_level |-> tilePos[1],
                       tile_x |-> tilePos[2], tile_y |-> tilePos[3],
                       tile_provider |-> Provider(url), tile_data |-> image]},
            !.nextRowId = @ + 1,
            !.stored = [k \in DOMAIN @ \cup {KeyOf(tilePos, url)} |->
                          IF k = KeyOf(tilePos, url) THEN image ELSE @[k]],
            !.ops = Append(@, "cacheTile")]

\* ---- delivery ---------------------------------------------------------
\* onTile(tilePos, tile) of the base layer: the call is recorded.  reply is
\* the handle whose body the tile was decoded from, nullptr for a row.
onTile(s, tilePos, tile) ==
    [s EXCEPT !.onTileLog = Append(@, [tilePos |-> tilePos, tile |-> tile]),
              !.ops = Append(@, "onTile")]

NewTile(tilePos, image, reply) ==
    [geometry |-> tilePos, image |-> image, reply |-> reply]

\* ---- replies ----------------------------------------------------------
RECURSIVE onReplyFinished(_, _, _)

\* QNetworkReply::abort(): nothing on a finished or aborted reply; a running
\* one gets OperationCanceledError and emits finished() before abort returns
abort(s, reply) ==
    IF s.replies[reply].st # "running"
    THEN s
    ELSE LET s1 == [s EXCEPT !.replies[reply].st = "finished",
                             !.replies[reply].err = "OperationCanceledError"]
             s2 == onReplyFinished(s1, reply, s1.replies[reply].tilePos)
         IN  [s2 EXCEPT !.replies[reply].st = "aborted"]

\* a removeReply that drops the entry of every tile position
removeReplyAll(s, tilePos) ==
    LET reply == s.mRequest[tilePos]
    IN  IF reply = nullptr
        THEN s
        ELSE LET s1 == [s EXCEPT !.mRequest = [p \in DOMAIN @ |-> nullptr],
                                 !.ops = Append(@, "remove")]
                 s2 == abort(s1, reply)
             IN  [s2 EXCEPT !.replies[reply].released = TRUE]

\* a removeReply that forgets the entry and leaves the reply running
removeReplyNoAbort(s, tilePos) ==
    LET reply == s.mRequest[tilePos]
    IN  IF reply = nullptr
        THEN s
        ELSE [s EXCEPT !.mRequest[tilePos] = nullptr,
                       !.ops = Append(@, "remove")]

removeReply(s, tilePos) ==
    LET reply == s.mRequest[tilePos]
    IN  IF reply = nullptr
        THEN s
        ELSE LET s1 == [s EXCEPT !.mRequest[tilePos] = nullptr,
                                 !.ops = Append(@, "remove")]
                 s2 == abort(s1, reply)
             IN  \* close(); deleteLater()
                 [s2 EXCEPT !.replies[reply].released = TRUE]

\* an onReplyFinished that writes the table before it delivers and gives
\* up when the write failed
onReplyFinishedCacheFirst(s, reply, tilePos) ==
    IF s.replies[reply].err # "NoError"
    THEN removeReply(s, tilePos)
    ELSE LET rawImage == s.replies[reply].data
             tile == NewTile(tilePos, rawImage, reply)
             s1 == removeReply(s, tilePos)
             s2 == cacheTile(s1, rawImage, tilePos,
                             QUrlToString(s.replies[reply].url))
         IN  IF dbOk THEN onTile(s2, tilePos, tile) ELSE s2

\* an onReplyFinished that delivers whatever the reply's error is
onReplyFinishedNoErrorCheck(s, reply, tilePos) ==
    LET rawImage == s.replies[reply].data
        tile == NewTile(tilePos, rawImage, reply)
        s1 == removeReply(s, tilePos)
        s2 == onTile(s1, tilePos, tile)
    IN  cacheTile(s2, rawImage, tilePos, QUrlToString(s.replies[reply].url))

\* an onReplyFinished that issues the GET again when the reply failed
onReplyFinishedRetry(s, reply, tilePos) ==
    IF s.replies[reply].err # "NoError"
    THEN LET s1 == removeReply(s, tilePos)
         IN  IF s.replies[reply].err = "OperationCanceledError"
             THEN s1
             ELSE [s1 EXCEPT
                     !.replies = Append(@, [tilePos |-> tilePos,
                                            url |-> s.replies[reply].url,
                                            st |-> "running",
                                            err |-> "NoError",
                                            data |-> <<>>,
                                            released |-> FALSE,
                                            replaced |-> nullptr]),
                     !.mRequest[tilePos] = Len(s1.replies) + 1,
                     !.ops = Append(@, "get")]
    ELSE LET rawImage == s.replies[reply].data
             tile == NewTile(tilePos, rawImage, reply)
             s1 == removeReply(s, tilePos)
             s2 == onTile(s1, tilePos, tile)
         IN  cacheTile(s2, rawImage, tilePos,
                       QUrlToString(s.replies[reply].url))

\* an onReplyFinished that removes the entry after delivery and write
onReplyFinishedRemoveLast(s, reply, tilePos) ==
    IF s.replies[reply].err # "NoError"
    THEN removeReply(s, tilePos)
    ELSE LET rawImage == s.replies[reply].data
             tile == NewTile(tilePos, rawImage, reply)
             s1 == onTile(s, tilePos, tile)
             s2 == cacheTile(s1, rawImage, tilePos,
                             QUrlToString(s.replies[reply].url))
         IN  removeReply(s2, tilePos)

\* an onReplyFinished whose success path leaves the entry in mRequest
onReplyFinishedNoRemoveOnSuccess(s, reply, tilePos) ==
    IF s.replies[reply].err # "NoError"
    THEN removeReply(s, tilePos)
    ELSE LET rawImage == s.replies[reply].data
             tile == NewTile(tilePos, rawImage, reply)
             s2 == onTile(s, tilePos, tile)
         IN  cacheTile(s2, rawImage, tilePos,
                       QUrlToString(s.replies[reply].url))

\* an onReplyFinished whose error path returns without removeReply
onReplyFinishedNoRemoveOnError(s, reply, tilePos) ==
    IF s.replies[reply].err # "NoError"
    THEN s
    ELSE LET rawImage == s.replies[reply].data
             tile == NewTile(tilePos, rawImage, reply)
             s1 == removeReply(s, tilePos)
             s2 == onTile(s1, tilePos, tile)
         IN  cacheTile(s2, rawImage, tilePos,
                       QUrlToString(s.replies[reply].url))

onReplyFinished(s, reply, tilePos) ==
    IF s.replies[reply].err # "NoError"
    THEN removeReply(s, tilePos)
    ELSE LET rawImage == s.replies[reply].data
             tile == NewTile(tilePos, rawImage, reply)
             s1 == removeReply(s, tilePos)
             s2 == onTile(s1, tilePos, tile)
         IN  cacheTile(s2, rawImage, tilePos,
                       QUrlToString(s.replies[reply].url))

\* a request that skips the table lookup
requestNoLookup(s, tilePos) ==
    LET url == tilePosToUrl(tilePos)
        reply == Len(s.replies) + 1
    IN  [s EXCEPT
           !.replies = Append(@, [tilePos |-> tilePos, url |-> url,
                                  st |-> "running", err |-> "NoError",
                                  data |-> <<>>, released |-> FALSE,
                                  replaced |-> s.mRequest[tilePos]]),
           !.mRequest[tilePos] = reply,
           !.ops = Append(@, "get")]

\* a request that does nothing when the database is not open
requestNeedsDb(s, tilePos) ==
    LET url == tilePosToUrl(tilePos)
        cachedTile == findCachedTile(s, tilePos, tilePosToUrl(tilePos))
        reply == Len(s.replies) + 1
    IN  IF ~dbOk
        THEN s
        ELSE IF cachedTile # <<>>
        THEN onTile(s, tilePos, NewTile(tilePos, cachedTile, nullptr))
        ELSE [s EXCEPT
                !.replies = Append(@, [tilePos |-> tilePos, url |-> url,
                                       st |-> "running", err |-> "NoError",
                                       data |-> <<>>, released |-> FALSE,
                                       replaced |-> s.mRequest[tilePos]]),
                !.mRequest[tilePos] = reply,
                !.ops = Append(@, "get")]

request(s, tilePos) ==
    LET url == tilePosToUrl(tilePos)
        cachedTile == findCachedTile(s, tilePos, tilePosToUrl(tilePos))
        reply == Len(s.replies) + 1
    IN  IF cachedTile # <<>>
        THEN onTile(s, tilePos, NewTile(tilePos, cachedTile, nullptr))
        ELSE \* replaced: history, the handle this call overwrites
             [s EXCEPT
                !.replies = Append(@, [tilePos |-> tilePos, url |-> url,
                                       st |-> "running", err |-> "NoError",
                                       data |-> <<>>, released |-> FALSE,
                                       replaced |-> s.mRequest[tilePos]]),
                !.mRequest[tilePos] = reply,
                !.ops = Append(@, "get")]

\* a cancel that aborts the replies of every tile position
RECURSIVE removeEvery(_, _)
removeEvery(s, todo) ==
    IF todo = {}
    THEN s
    ELSE LET p == CHOOSE q \in todo : TRUE
         IN  removeEvery(removeReply(s, p), todo \ {p})

cancelEvery(s, tilePos) == removeEvery(s, DOMAIN s.mRequest)

cancel(s, tilePos) == removeReply(s, tilePos)

\* ---- the state machine ------------------------------------------------
State ==
    [rows |-> rows, nextRowId |-> nextRowId, mRequest |-> mRequest,
     replies |-> replies, onTileLog |-> onTileLog, ops |-> <<>>,
     stored |-> stored]

Becomes(s) ==
    /\ rows' = s.rows
    /\ nextRowId' = s.nextRowId
    /\ mRequest' = s.mRequest
    /\ replies' = s.replies
    /\ onTileLog' = s.onTileLog
    /\ ops' = s.ops
    /\ stored' = s.stored
    /\ UNCHANGED <<dbOk, host>>

\* rows tiles_cache.db holds when the layer is constructed: one per chosen
\* position, with the ids 1..Cardinality(TilePositions)
InitRows(cached, h) ==
    {[id |-> tilePos[3], zoom_level |-> tilePos[1], tile_x |-> tilePos[2],
      tile_y |-> tilePos[3], tile_provider |-> h, tile_data |-> <<2>>]
       : tilePos \in cached}

Init ==
    /\ dbOk \in BOOLEAN
    /\ host \in Hosts
    /\ \E cached \in SUBSET TilePositions, h \in {host, ToLower(host)} :
          rows = IF dbOk THEN InitRows(cached, h) ELSE {}
    /\ nextRowId = 1 + Cardinality(TilePositions)
    /\ mRequest = [p \in TilePositions |-> nullptr]
    /\ replies = <<>>
    /\ onTileLog = <<>>
    /\ ops = <<>>
    /\ stored = <<>>
    /\ hits = 0
    /\ last = [op |-> "init", tilePos |-> <<>>, reply |-> nullptr]

\* the base layer calls request(tilePos), while fewer than max GETs have
\* been issued
RequestUpTo(tilePos, max) ==
    LET hit == findCachedTile(State, tilePos, tilePosToUrl(tilePos)) # <<>>
    IN  /\ IF hit THEN hits < MaxHits ELSE Len(replies) < max
        /\ Becomes(request(State, tilePos))
        /\ hits' = IF hit THEN hits + 1 ELSE hits
        /\ last' = [op |-> "request", tilePos |-> tilePos,
                    reply |-> mRequest[tilePos]]

Request(tilePos) == RequestUpTo(tilePos, MaxReplies)

\* the base layer calls cancel(tilePos)
Cancel(tilePos) ==
    /\ Becomes(cancel(State, tilePos))
    /\ UNCHANGED hits
    /\ last' = [op |-> "cancel", tilePos |-> tilePos,
                reply |-> mRequest[tilePos]]

\* the network finishes a running reply with a body or with an error and
\* the reply emits finished(): the lambda of request() runs onReplyFinished
Finished(reply, err, data) ==
    /\ replies[reply].st = "running"
    /\ LET s == [State EXCEPT !.replies[reply].st = "finished",
                              !.replies[reply].err = err,
                              !.replies[reply].data = data]
       IN  Becomes(onReplyFinished(s, reply, replies[reply].tilePos))
    /\ UNCHANGED hits
    /\ last' = [op |-> "finished", tilePos |-> replies[reply].tilePos,
                reply |-> reply]

FinishedOk == \E reply \in DOMAIN replies, data \in Bodies :
                 Finished(reply, "NoError", data)

FinishedError == \E reply \in DOMAIN replies :
                    Finished(reply, "NetworkError", <<>>)

Next ==
    \/ \E tilePos \in TilePositions : Request(tilePos)
    \/ \E tilePos \in TilePositions : Cancel(tilePos)
    \/ FinishedOk
    \/ FinishedError

Spec == Init /\ [][Next]_vars

\* the network finishes reply, with a body or with an error
FinishedReply(reply) ==
    /\ reply \in DOMAIN replies
    /\ \/ \E data \in Bodies : Finished(reply, "NoError", data)
       \/ Finished(reply, "NetworkError", <<>>)

\* the steps of a run in which at most MaxLiveReplies GETs are issued
NextLive ==
    \/ \E tilePos \in TilePositions : RequestUpTo(tilePos, MaxLiveReplies)
    \/ \E tilePos \in TilePositions : Cancel(tilePos)
    \/ FinishedOk
    \/ FinishedError

\* every GET that was issued completes
SpecLive ==
    Init /\ [][NextLive]_vars
         /\ \A reply \in 1..MaxLiveReplies : WF_vars(FinishedReply(reply))

\* ---- properties -------------------------------------------------------
\* number of onTile calls whose tile was decoded from the body of reply
Deliveries(log, reply) ==
    Cardinality({i \in DOMAIN log : log[i].tile.reply = reply})

\* the onTile calls made for tilePos, in order
DeliveriesOf(log, tilePos) ==
    SelectSeq(log, LAMBDA d : d.tilePos = tilePos)

RowsOf(rs, tilePos) ==
    {r \in rs : <<r.zoom_level, r.tile_x, r.tile_y>> = tilePos}

\* C1: a reply that finished without error has been delivered through
\* onTile exactly once; a reply that finished with an error, cancellation
\* included, and a reply still running have not been delivered at all.
C1_ExactlyOnceOnSuccess ==
    \A reply \in DOMAIN replies :
        Deliveries(onTileLog, reply) =
            IF replies[reply].st # "running" /\ replies[reply].err = "NoError"
            THEN 1 ELSE 0

C1_Witness ==
    \E r1, r2, r3 \in DOMAIN replies :
        /\ replies[r1].err = "NoError" /\ replies[r1].st = "finished"
        /\ replies[r2].err = "NetworkError"
        /\ replies[r3].err = "OperationCanceledError"

\* the table holds a non-empty row under the key request(tilePos) looks up
HoldsEntry(tilePos) ==
    \E r \in rows : /\ RowKey(r) = KeyOf(tilePos, tilePosToUrl(tilePos))
                    /\ r.tile_data # <<>>

\* C2: a request(tilePos) made while the table holds a non-empty row under
\* the key of tilePos calls onTile with that row's bytes, issues no GET and
\* leaves mRequest as it was.
C2_CacheHitNoFetch ==
    [][\A tilePos \in TilePositions :
          (last'.op = "request" /\ last'.tilePos = tilePos
             /\ HoldsEntry(tilePos))
          => /\ \E r \in rows :
                  /\ RowKey(r) = KeyOf(tilePos, tilePosToUrl(tilePos))
                  /\ onTileLog' = Append(onTileLog,
                        [tilePos |-> tilePos,
                         tile |-> NewTile(tilePos, r.tile_data, nullptr)])
             /\ replies' = replies
             /\ mRequest' = mRequest]_vars

C2_Witness ==
    /\ last.op = "request"
    /\ ops = <<"onTile">>
    /\ HoldsEntry(last.tilePos)
    /\ onTileLog[Len(onTileLog)].tile.reply = nullptr

\* C3: cancel(tilePos) with an entry for tilePos in mRequest removes the
\* entry and leaves that reply aborted and undelivered, and no reply that
\* has stopped running is delivered by any later step.
C3_CancelRemovesAndSilences ==
    /\ [][\A tilePos \in TilePositions :
             (last'.op = "cancel" /\ last'.tilePos = tilePos
                /\ mRequest[tilePos] # nullptr)
             => /\ mRequest'[tilePos] = nullptr
                /\ replies'[mRequest[tilePos]].st = "aborted"
                /\ Deliveries(onTileLog', mRequest[tilePos]) = 0]_vars
    /\ [][\A reply \in DOMAIN replies :
             replies[reply].st # "running"
             => /\ replies'[reply].st # "running"
                /\ Deliveries(onTileLog', reply)
                      = Deliveries(onTileLog, reply)]_vars

C3_Witness ==
    /\ last.op = "cancel"
    /\ last.reply # nullptr
    /\ mRequest[last.tilePos] = nullptr
    /\ replies[last.reply].st = "aborted"

\* the replies issued for tilePos that are still running
Running(tilePos) ==
    {reply \in DOMAIN replies : /\ replies[reply].tilePos = tilePos
                                /\ replies[reply].st = "running"}

\* C4: at most one network fetch is in flight per tile position.
C4_AtMostOneFetchInFlight ==
    \A tilePos \in TilePositions : Cardinality(Running(tilePos)) <= 1

\* C5: of two replies for one tile position, the second requested while
\* the first was registered in mRequest, at most one is delivered.
C5_AtMostOneDeliveryForPair ==
    \A reply \in DOMAIN replies :
        replies[reply].replaced # nullptr
        => Deliveries(onTileLog, reply)
             + Deliveries(onTileLog, replies[reply].replaced) <= 1

\* C6: a reply for tile position A finishing with a network error leaves,
\* for every other position B, the mRequest entry, the replies, the rows
\* and the deliveries as they were.
C6_FailureIsolation ==
    [][\A A \in TilePositions :
          (/\ last'.op = "finished" /\ last'.tilePos = A
           /\ replies'[last'.reply].err = "NetworkError")
          => \A B \in TilePositions \ {A} :
                /\ mRequest'[B] = mRequest[B]
                /\ \A reply \in DOMAIN replies :
                      replies[reply].tilePos = B
                      => replies'[reply] = replies[reply]
                /\ RowsOf(rows', B) = RowsOf(rows, B)
                /\ DeliveriesOf(onTileLog', B) = DeliveriesOf(onTileLog, B)]_vars

C6_Witness ==
    /\ last.op = "finished"
    /\ replies[last.reply].err = "NetworkError"
    /\ \E B \in TilePositions \ {last.tilePos} :
          /\ mRequest[B] # nullptr
          /\ replies[mRequest[B]].st = "running"

\* C7: cancel(tilePos) with no entry for tilePos in mRequest changes
\* neither mRequest, nor the rows, nor any reply, nor the deliveries.
C7_CancelIdleIsNoOp ==
    [][\A tilePos \in TilePositions :
          (last'.op = "cancel" /\ last'.tilePos = tilePos
             /\ mRequest[tilePos] = nullptr)
          => UNCHANGED <<mRequest, rows, nextRowId, replies, onTileLog>>]_vars

C7_Witness ==
    /\ last.op = "cancel"
    /\ last.reply = nullptr
    /\ \E reply \in DOMAIN replies : replies[reply].st = "running"

\* position of the first call named op in the calls of the last handler,
\* 0 when there is none
FirstOp(names) ==
    IF \E i \in DOMAIN ops : ops[i] \in names
    THEN CHOOSE i \in DOMAIN ops :
            /\ ops[i] \in names
            /\ \A j \in DOMAIN ops : ops[j] \in names => i <= j
    ELSE 0

\* C8: a reply that finishes without error is delivered before the table
\* is written, and it is delivered whether or not that write succeeds.
C8_DeliverBeforeCacheWrite ==
    (last.op = "finished" /\ replies[last.reply].err = "NoError")
    => /\ FirstOp({"onTile"}) > 0
       /\ FirstOp({"onTile"}) < FirstOp({"cacheTile", "cacheTile failed"})
       /\ onTileLog[Len(onTileLog)] =
             [tilePos |-> last.tilePos,
              tile |-> NewTile(last.tilePos, replies[last.reply].data,
                               last.reply)]

C8_Witness ==
    /\ last.op = "finished"
    /\ replies[last.reply].err = "NoError"
    /\ ops[Len(ops)] = "cacheTile failed"
    /\ onTileLog[Len(onTileLog)].tile.reply = last.reply

\* findCachedTile for a key <<zoom, x, y, provider>>
Lookup(k) ==
    findCachedTile(State, <<k[1], k[2], k[3]>>, <<"http:", "", k[4]>>)

\* C9: for every key a non-empty image was last stored under, the lookup
\* of that key returns exactly that image.
C9_RoundTrip ==
    \A k \in DOMAIN stored : stored[k] # <<>> => Lookup(k) = stored[k]

C9_Witness ==
    \E k \in DOMAIN stored :
        /\ stored[k] # <<>>
        /\ Lookup(k) = stored[k]
        /\ \E r \in rows : RowKey(r) # k /\ r.tile_data # stored[k]

\* C10: the table never holds two rows with one key, and the single row of
\* a key that was stored holds the bytes of the last store.
C10_OneRowPerKey ==
    /\ \A r1, r2 \in rows : RowKey(r1) = RowKey(r2) => r1 = r2
    /\ \A k \in DOMAIN stored :
          \E r \in rows : /\ RowKey(r) = k
                          /\ r.tile_data = stored[k]

C10_Witness ==
    \E r1, r2 \in DOMAIN replies :
        /\ r1 < r2
        /\ replies[r1].tilePos = replies[r2].tilePos
        /\ replies[r1].st = "finished" /\ replies[r1].err = "NoError"
        /\ replies[r2].st = "finished" /\ replies[r2].err = "NoError"
        /\ replies[r1].data # replies[r2].data
        /\ dbOk

\* C11: with the database not open or the table not created, every lookup
\* is a miss, the table stays as it was, every request(tilePos) issues a
\* GET and registers it, and a reply that finished without error has been
\* delivered exactly once.
C11_StoreUnavailable ==
    ~dbOk
    => /\ \A tilePos \in TilePositions :
             findCachedTile(State, tilePos, tilePosToUrl(tilePos)) = <<>>
       /\ rows = {} /\ stored = <<>> /\ hits = 0
       /\ last.op = "request"
          => /\ ops = <<"get">>
             /\ mRequest[last.tilePos] = Len(replies)
             /\ replies[Len(replies)].st = "running"
       /\ \A reply \in DOMAIN replies :
             (replies[reply].st = "finished" /\ replies[reply].err = "NoError")
             => Deliveries(onTileLog, reply) = 1

C11_Witness ==
    /\ ~dbOk
    /\ rows = {}
    /\ \E r1, r2 \in DOMAIN replies :
          /\ r1 # r2
          /\ replies[r1].tilePos = replies[r2].tilePos
          /\ replies[r1].st = "finished" /\ replies[r1].err = "NoError"
          /\ replies[r1].data # <<>>
          /\ Deliveries(onTileLog, r1) = 1
          /\ replies[r2].replaced = nullptr

\* C12: a step in which a reply finishes with an error or is aborted, and
\* no reply finishes without error, leaves the table as it was and issues
\* no GET; and only request() issues a GET.
C12_FailureIsTerminal ==
    /\ [][(/\ last'.op \in {"finished", "cancel"}
           /\ \A reply \in DOMAIN replies :
                 (replies[reply].st = "running"
                    /\ replies'[reply].st # "running")
                 => replies'[reply].err # "NoError")
          => /\ rows' = rows /\ nextRowId' = nextRowId /\ stored' = stored
             /\ Len(replies') = Len(replies)
             /\ onTileLog' = onTileLog]_vars
    /\ [][Len(replies') # Len(replies) => last'.op = "request"]_vars

C12_Witness ==
    /\ last.op = "finished"
    /\ replies[last.reply].err = "NetworkError"
    /\ dbOk
    /\ mRequest[last.tilePos] = nullptr
    /\ Len(replies) < MaxReplies

\* C13: when the completion handler of a reply for tilePos has returned,
\* whatever the reply's outcome, mRequest holds no entry for tilePos.
C13_EntryClearedOnCompletion ==
    /\ last.op = "finished" => mRequest[last.tilePos] = nullptr
    /\ \A reply \in DOMAIN replies :
          replies[reply].st # "running"
          => mRequest[replies[reply].tilePos] # reply

C13_Witness ==
    /\ last.op = "finished"
    /\ replies[last.reply].err = "NetworkError"
    /\ \E reply \in DOMAIN replies :
          /\ replies[reply].st = "aborted"
          /\ replies[reply].tilePos = last.tilePos
          /\ replies[reply].replaced = last.reply

\* C14: when every reply that was issued completes, every entry of
\* mRequest is eventually removed, and once request() is no longer called
\* mRequest stays empty.
C14_EntriesEventuallyRemoved ==
    /\ \A tilePos \in TilePositions :
          (mRequest[tilePos] # nullptr) ~> (mRequest[tilePos] = nullptr)
    /\ <>[](\A tilePos \in TilePositions : mRequest[tilePos] = nullptr)

C14_Witness ==
    /\ last.op = "finished"
    /\ Len(replies) = MaxLiveReplies
    /\ \A reply \in DOMAIN replies : replies[reply].st = "finished"
    /\ \A tilePos \in TilePositions : mRequest[tilePos] = nullptr

\* C15 as stated: on a completion without error the tile is delivered,
\* then the table is written, and the entry of mRequest is removed after
\* both.
C15_RemoveAfterDeliverAndWrite ==
    (/\ last.op = "finished" /\ replies[last.reply].err = "NoError"
     /\ FirstOp({"remove"}) > 0)
    => /\ FirstOp({"onTile"}) < FirstOp({"cacheTile", "cacheTile failed"})
       /\ FirstOp({"cacheTile", "cacheTile failed"}) < FirstOp({"remove"})

\* C15 amended: on a completion without error the entry of mRequest, when
\* there is one, is removed first, then the tile is delivered, then the
\* table is written.
C15_RemoveThenDeliverThenWrite ==
    (last.op = "finished" /\ replies[last.reply].err = "NoError")
    => \E write \in {"cacheTile", "cacheTile failed"} :
          \/ ops = <<"remove", "onTile", write>>
          \/ /\ ops = <<"onTile", write>>
             /\ ~replies[last.reply].released

C15_Witness ==
    /\ last.op = "finished"
    /\ replies[last.reply].err = "NoError"
    /\ replies[last.reply].released
    /\ ops = <<"remove", "onTile", "cacheTile">>

\* positions in onTileLog of the tiles for tilePos decoded from a reply
FetchedAt(tilePos) ==
    {i \in DOMAIN onTileLog : /\ onTileLog[i].tilePos = tilePos
                              /\ onTileLog[i].tile.reply # nullptr}

\* the body of the reply for tilePos that last finished without error
LastFetched(tilePos) ==
    onTileLog[CHOOSE i \in FetchedAt(tilePos) :
                 \A j \in FetchedAt(tilePos) : j <= i].tile.image

\* C16: with the database open, a request(tilePos) made after a reply for
\* tilePos finished without error is served from the table, with the body
\* of the last such reply, and issues no GET.
C16_ServedFromCacheAfterFetch ==
    (/\ dbOk /\ last.op = "request"
     /\ FetchedAt(last.tilePos) # {})
    => /\ ops = <<"onTile">>
       /\ onTileLog[Len(onTileLog)].tile =
             NewTile(last.tilePos, LastFetched(last.tilePos), nullptr)

\* C17: the row a completion without error writes has the key that
\* request() looked up for the same tile position.
C17_StoreKeyIsLookupKey ==
    (/\ last.op = "finished" /\ replies[last.reply].err = "NoError"
     /\ ops[Len(ops)] = "cacheTile")
    => \E r \in rows :
          /\ r.id = nextRowId - 1
          /\ RowKey(r) = KeyOf(last.tilePos, tilePosToUrl(last.tilePos))

\* C18: the completion of a reply neither aborts another reply that is
\* still running nor removes the entry of mRequest that refers to it.
C18_CompletionTouchesOwnHandleOnly ==
    [][last'.op = "finished"
       => \A reply \in DOMAIN replies \ {last'.reply} :
             replies[reply].st = "running"
             => /\ replies'[reply].st = "running"
                /\ mRequest[replies[reply].tilePos] = reply
                   => mRequest'[replies[reply].tilePos] = reply]_vars

\* C19: every reply that is running and has not been released is the one
\* mRequest holds for its tile position.
C19_NoLeakedHandle ==
    \A reply \in DOMAIN replies :
        (replies[reply].st = "running" /\ ~replies[reply].released)
        => mRequest[replies[reply].tilePos] = reply

====
